---- MODULE Spec2Model ----
(***************************************************************************)
(* Tennis court scheduler: the player statistics aggregation of            *)
(* src/src/components/PlayerStats.tsx (calculatePlayerStats), the email    *)
(* dispatch of the EmailNotifications component (sendNotifications) and    *)
(* the booking store of src/src/App.tsx.                                   *)
(*                                                                         *)
(* Strings are sequences of one-character strings, so that trim() and the  *)
(* Map key comparison are computed and not assumed.  A date string         *)
(* "YYYY-MM-DD" is the tuple <<YYYY, MM, DD>>; new Date(s) is its day      *)
(* number.  A JavaScript Map is the sequence of its entries in insertion   *)
(* order.                                                                  *)
(***************************************************************************)
EXTENDS Integers, Sequences, FiniteSets, TLC

\* PlayerStats: the bookings prop, the Map of the last run, the playerStats
\* state with its previous value, and the number of runs of the effect.
VARIABLES bookings, statsMap, playerStats, prevStats, runs

\* EmailNotifications: its React state, the email promises of the batch in
\* flight, the position of sendNotifications and the pending close timers.
VARIABLES isOpen, emailAddresses, emailTemplate, isSending, sendStatus,
          errorMessage, sends, mailPc, timers

\* App: its React state, localStorage, the time zone of the browser, the
\* position of React (idle, running effects, about to re-render) with the
\* effects still to run and the state updates they queued (none, or the
\* last one), and the store as it was at the last change of the selected
\* date (none, or that store).
VARIABLES selectedDate, appBookings, allBookings, isDialogOpen, editingBooking,
          playerInputs, localStorage, tzShift, appPc, pendingEffects, queued,
          beforeChange

statsVars == <<bookings, statsMap, playerStats, prevStats, runs>>

mailVars == <<isOpen, emailAddresses, emailTemplate, isSending, sendStatus,
              errorMessage, sends, mailPc, timers>>

appVars == <<selectedDate, appBookings, allBookings, isDialogOpen, editingBooking,
             playerInputs, localStorage, tzShift, appPc, pendingEffects, queued,
             beforeChange>>

vars == <<statsVars, mailVars, appVars>>

(***************************************************************************)
(* Bounds of the input space.                                              *)
(***************************************************************************)
MaxBookings == 3
MaxPlayers == 2
MaxEntries == 3
MaxRuns == 2

(***************************************************************************)
(* Input alphabets.                                                        *)
(***************************************************************************)
Whitespace == {" "}

Names == { <<>>, <<" ">>, <<"A">>, <<" ", "A">>, <<"B">> }

Courts == {1, 3}

Types == {"singles", "doubles"}

Dates == { <<2023, 12, 30>>, <<2024, 1, 5>> }

TIME_SLOTS == [singles |-> <<"5:00-6:00 PM", "6:00-7:00 PM">>,
               doubles |-> <<"7:00-8:00 PM", "8:00-9:00 PM">>]

(***************************************************************************)
(* String.prototype.trim                                                   *)
(***************************************************************************)
RECURSIVE trimStart(_)
trimStart(s) ==
    IF s = <<>> THEN <<>>
    ELSE IF Head(s) \in Whitespace THEN trimStart(Tail(s))
    ELSE s

RECURSIVE trimEnd(_)
trimEnd(s) ==
    IF s = <<>> THEN <<>>
    ELSE IF s[Len(s)] \in Whitespace THEN trimEnd(SubSeq(s, 1, Len(s) - 1))
    ELSE s

trim(s) == trimEnd(trimStart(s))

(***************************************************************************)
(* new Date("YYYY-MM-DD"): the number of days since 1970-01-01             *)
(* (the time value divided by 86400000).                                   *)
(***************************************************************************)
IsLeap(y) == (y % 4 = 0 /\ y % 100 # 0) \/ y % 400 = 0

DaysBeforeMonth(y, m) ==
    LET cum == <<0, 31, 59, 90, 120, 151, 181, 212, 243, 273, 304, 334>>
    IN cum[m] + (IF m > 2 /\ IsLeap(y) THEN 1 ELSE 0)

DaysBeforeYear(y) ==
    LET p == y - 1
    IN 365 * (y - 1970) + ((p \div 4) - (p \div 100) + (p \div 400))
                        - ((1969 \div 4) - (1969 \div 100) + (1969 \div 400))

NewDate(d) == DaysBeforeYear(d[1]) + DaysBeforeMonth(d[1], d[2]) + (d[3] - 1)

(***************************************************************************)
(* Map<K, V> as a sequence of entries [key, value] in insertion order.     *)
(***************************************************************************)
MapHas(m, k) == \E i \in DOMAIN m : m[i].key = k

MapIndex(m, k) == CHOOSE i \in DOMAIN m : m[i].key = k

MapGet(m, k) == m[MapIndex(m, k)].value

MapSet(m, k, v) ==
    IF MapHas(m, k)
    THEN [m EXCEPT ![MapIndex(m, k)] = [key |-> k, value |-> v]]
    ELSE Append(m, [key |-> k, value |-> v])

MapValues(m) == [i \in DOMAIN m |-> m[i].value]

\* Variant of NewStatsMap: the map of the previous run is reused.
NewStatsMap_Stale == statsMap

NewStatsMap == <<>>

(***************************************************************************)
(* calculatePlayerStats.  The heap h holds the two structures the function *)
(* can reach: the bookings array it is given and its own statsMap.         *)
(***************************************************************************)
NewPlayerStat(playerName, booking) ==
    [name |-> playerName,
     totalMatches |-> 0,
     singlesMatches |-> 0,
     doublesMatches |-> 0,
     totalHours |-> 0,
     favoriteCourt |-> 1,
     lastPlayed |-> booking.date]

\* Variant of MatchDuration: every match lasts one hour.
MatchDuration_AlwaysOne(booking) == 1

MatchDuration(booking) == IF booking.type = "singles" THEN 1 ELSE 2

\* Variant of CountMatch: a doubles match is not counted by type.
CountMatch_SinglesOnly(existing, booking) ==
    LET counted == [existing EXCEPT !.totalMatches = @ + 1,
                                    !.totalHours = @ + MatchDuration(booking)]
    IN IF booking.type = "singles"
       THEN [counted EXCEPT !.singlesMatches = @ + 1]
       ELSE counted

CountMatch(existing, booking) ==
    LET counted == [existing EXCEPT !.totalMatches = @ + 1,
                                    !.totalHours = @ + MatchDuration(booking)]
    IN IF booking.type = "singles"
       THEN [counted EXCEPT !.singlesMatches = @ + 1]
       ELSE [counted EXCEPT !.doublesMatches = @ + 1]

\* Variant of UpdateLastPlayed: the last booking in input order wins.
UpdateLastPlayed_Overwrite(existing, booking) ==
    [existing EXCEPT !.lastPlayed = booking.date]

UpdateLastPlayed(existing, booking) ==
    IF NewDate(booking.date) > NewDate(existing.lastPlayed)
    THEN [existing EXCEPT !.lastPlayed = booking.date]
    ELSE existing

\* Variant of ProcessPlayer: only the empty string is skipped.
ProcessPlayer_NoTrim(h, i, j) ==
    LET booking == h.bookings[i]
        playerName == booking.players[j]
        existing == IF MapHas(h.statsMap, playerName)
                    THEN MapGet(h.statsMap, playerName)
                    ELSE NewPlayerStat(playerName, booking)
    IN IF playerName = <<>>
       THEN h
       ELSE [h EXCEPT !.statsMap =
                MapSet(@, playerName,
                       UpdateLastPlayed(CountMatch(existing, booking), booking))]

\* Variant of ProcessPlayer: the trimmed name is written back to the booking.
ProcessPlayer_TrimInPlace(h, i, j) ==
    LET booking == h.bookings[i]
        playerName == booking.players[j]
        existing == IF MapHas(h.statsMap, playerName)
                    THEN MapGet(h.statsMap, playerName)
                    ELSE NewPlayerStat(playerName, booking)
    IN IF trim(playerName) = <<>>
       THEN h
       ELSE [h EXCEPT !.bookings[i].players[j] = trim(playerName),
                      !.statsMap =
                MapSet(@, playerName,
                       UpdateLastPlayed(CountMatch(existing, booking), booking))]

\* The callback of booking.players.forEach, for player j of booking i.
ProcessPlayer(h, i, j) ==
    LET booking == h.bookings[i]
        playerName == booking.players[j]
        existing == IF MapHas(h.statsMap, playerName)
                    THEN MapGet(h.statsMap, playerName)
                    ELSE NewPlayerStat(playerName, booking)
    IN IF trim(playerName) = <<>>
       THEN h
       ELSE [h EXCEPT !.statsMap =
                MapSet(@, playerName,
                       UpdateLastPlayed(CountMatch(existing, booking), booking))]

RECURSIVE ProcessPlayersFrom(_, _, _)
ProcessPlayersFrom(h, i, j) ==
    IF j > Len(h.bookings[i].players) THEN h
    ELSE ProcessPlayersFrom(ProcessPlayer(h, i, j), i, j + 1)

\* The callback of the first bookings.forEach.
ProcessBooking(h, i) == ProcessPlayersFrom(h, i, 1)

RECURSIVE GroupingPassFrom(_, _)
GroupingPassFrom(h, i) ==
    IF i > Len(h.bookings) THEN h
    ELSE GroupingPassFrom(ProcessBooking(h, i), i + 1)

GroupingPass(h) == GroupingPassFrom(h, 1)

\* Array.prototype.includes on a players array.
Includes(players, playerName) == \E j \in DOMAIN players : players[j] = playerName

\* One step of the inner bookings.forEach of the second pass.
CountCourt(courtCounts, booking, playerName) ==
    IF Includes(booking.players, playerName)
    THEN MapSet(courtCounts, booking.court,
                (IF MapHas(courtCounts, booking.court)
                 THEN MapGet(courtCounts, booking.court) ELSE 0) + 1)
    ELSE courtCounts

RECURSIVE CourtCountsFrom(_, _, _, _)
CourtCountsFrom(courtCounts, bs, i, playerName) ==
    IF i > Len(bs) THEN courtCounts
    ELSE CourtCountsFrom(CountCourt(courtCounts, bs[i], playerName), bs, i + 1, playerName)

CourtCounts(bs, playerName) == CourtCountsFrom(<<>>, bs, 1, playerName)

\* Variant of PickCourt: among equal counts the last court wins.
PickCourt_LastMax(best, entry) ==
    IF entry.value >= best.maxCount
    THEN [maxCount |-> entry.value, favoriteCourt |-> entry.key]
    ELSE best

\* One step of courtCounts.forEach: best is [maxCount, favoriteCourt].
PickCourt(best, entry) ==
    IF entry.value > best.maxCount
    THEN [maxCount |-> entry.value, favoriteCourt |-> entry.key]
    ELSE best

RECURSIVE PickFavoriteFrom(_, _, _)
PickFavoriteFrom(best, courtCounts, i) ==
    IF i > Len(courtCounts) THEN best
    ELSE PickFavoriteFrom(PickCourt(best, courtCounts[i]), courtCounts, i + 1)

FavoriteCourt(courtCounts) ==
    PickFavoriteFrom([maxCount |-> 0, favoriteCourt |-> 1], courtCounts, 1).favoriteCourt

\* The callback of statsMap.forEach, for entry k of the map.
SetFavoriteCourt(h, k) ==
    [h EXCEPT !.statsMap[k].value.favoriteCourt =
        FavoriteCourt(CourtCounts(h.bookings, h.statsMap[k].key))]

RECURSIVE FavoriteCourtPassFrom(_, _)
FavoriteCourtPassFrom(h, k) ==
    IF k > Len(h.statsMap) THEN h
    ELSE FavoriteCourtPassFrom(SetFavoriteCourt(h, k), k + 1)

FavoriteCourtPass(h) == FavoriteCourtPassFrom(h, 1)

\* Variant of CompareStats: ascending order.
CompareStats_Ascending(a, b) == a.totalMatches - b.totalMatches

\* The comparator (a, b) => b.totalMatches - a.totalMatches.
CompareStats(a, b) == b.totalMatches - a.totalMatches

\* Array.prototype.sort is stable: x, which came after every element of the
\* sorted prefix s, goes before the first element that must follow it.
RECURSIVE InsertSorted(_, _)
InsertSorted(s, x) ==
    IF s = <<>> THEN <<x>>
    ELSE IF CompareStats(Head(s), x) > 0 THEN <<x>> \o s
    ELSE <<Head(s)>> \o InsertSorted(Tail(s), x)

RECURSIVE SortFrom(_, _, _)
SortFrom(sorted, arr, i) ==
    IF i > Len(arr) THEN sorted
    ELSE SortFrom(InsertSorted(sorted, arr[i]), arr, i + 1)

SortStats(arr) == SortFrom(<<>>, arr, 1)

(***************************************************************************)
(* Input space: every collection of at most MaxBookings bookings, each     *)
(* with 1..MaxPlayers player entries, at most MaxEntries entries in all.   *)
(* The function reads court only in its second pass (82-86), date only for *)
(* lastPlayed (57, 70-71) and type only for the counters (44, 63): in each *)
(* collection one of the three ranges over all its values, booking by      *)
(* booking, and the other two are the same in every booking.               *)
(***************************************************************************)
RECURSIVE SumTo(_, _)
SumTo(f, n) == IF n = 0 THEN 0 ELSE f[n] + SumTo(f, n - 1)

MakeBooking(court, type, date, players) ==
    [court |-> court,
     timeSlot |-> TIME_SLOTS[type][1],
     players |-> players,
     type |-> type,
     date |-> date]

TypeOK ==
    /\ runs \in 0..MaxRuns
    /\ Len(bookings) <= MaxBookings
    /\ \A i \in DOMAIN bookings :
          /\ bookings[i].court \in Courts
          /\ bookings[i].type \in Types
          /\ bookings[i].date \in Dates
          /\ \A j \in DOMAIN bookings[i].players : bookings[i].players[j] \in Names

\* EmailNotifications 32-54: the state after construction.  The template
\* is written from the booking and is not blank.
MailInit ==
    /\ isOpen = FALSE
    /\ emailAddresses = << <<>> >>
    /\ emailTemplate = [subject |-> <<"h", "\n", "i">>, message |-> <<"h", "\n", "i">>]
    /\ isSending = FALSE
    /\ sendStatus = "idle"
    /\ errorMessage = ""
    /\ sends = <<>>
    /\ mailPc = "idle"
    /\ timers = 0

\* A value that is not set: null, or no queued state update.
Null == [null |-> TRUE]

\* App 29-38: the App before it is mounted, with an empty store.
AppIdle ==
    /\ selectedDate = <<2024, 1, 7>>
    /\ appBookings = <<>>
    /\ allBookings = <<>>
    /\ isDialogOpen = FALSE
    /\ editingBooking = Null
    /\ playerInputs = << <<>>, <<>>, <<>>, <<>> >>
    /\ localStorage = <<>>
    /\ tzShift = 0
    /\ appPc = "idle"
    /\ pendingEffects = {}
    /\ queued = [bookings |-> <<>>, allBookings |-> <<>>]
    /\ beforeChange = <<>>

Attributes(n) ==
    LET sameCourt == [i \in 1..n |-> 3]
        sameType == [i \in 1..n |-> "singles"]
        sameDate == [i \in 1..n |-> <<2023, 12, 30>>]
    IN { [cs |-> c, ts |-> sameType, ds |-> sameDate] : c \in [1..n -> Courts] }
       \cup { [cs |-> sameCourt, ts |-> t, ds |-> sameDate] : t \in [1..n -> Types] }
       \cup { [cs |-> sameCourt, ts |-> sameType, ds |-> d] : d \in [1..n -> Dates] }

Init ==
    /\ \E n \in 0..MaxBookings :
       \E lens \in [1..n -> 1..MaxPlayers] :
          /\ SumTo(lens, n) <= MaxEntries
          /\ \E a \in Attributes(n), flat \in [1..SumTo(lens, n) -> Names] :
                bookings = [i \in 1..n |->
                              MakeBooking(a.cs[i], a.ts[i], a.ds[i],
                                  [j \in 1..lens[i] |-> flat[SumTo(lens, i - 1) + j]])]
    /\ statsMap = <<>>
    /\ playerStats = <<>>
    /\ prevStats = <<>>
    /\ runs = 0
    /\ MailInit
    /\ AppIdle

\* PlayerStats.tsx 39-102: one synchronous run of the effect's callback.
calculatePlayerStats ==
    /\ runs < MaxRuns
    /\ LET h == FavoriteCourtPass(GroupingPass([bookings |-> bookings,
                                                statsMap |-> NewStatsMap]))
       IN /\ bookings' = h.bookings
          /\ statsMap' = h.statsMap
          /\ playerStats' = SortStats(MapValues(h.statsMap))
    /\ prevStats' = playerStats
    /\ runs' = runs + 1
    /\ UNCHANGED <<mailVars, appVars>>

Next == calculatePlayerStats

Spec == Init /\ [][Next]_vars

(***************************************************************************)
(* Vocabulary of the properties, stated on the input and the output only.  *)
(***************************************************************************)
Done == runs >= 1

Positions ==
    UNION { { <<i, j>> : j \in DOMAIN bookings[i].players } : i \in DOMAIN bookings }

EntryAt(pos) == bookings[pos[1]].players[pos[2]]

IsBlank(e) == \A k \in DOMAIN e : e[k] \in Whitespace

NonBlankPositions == { pos \in Positions : ~IsBlank(EntryAt(pos)) }

BookingsWith(name) ==
    { i \in DOMAIN bookings :
        \E j \in DOMAIN bookings[i].players : bookings[i].players[j] = name }

OutputNames == { playerStats[k].name : k \in DOMAIN playerStats }

PosBefore(p, q) == p[1] < q[1] \/ (p[1] = q[1] /\ p[2] < q[2])

FirstSeen(name) ==
    CHOOSE p \in Positions :
        /\ EntryAt(p) = name
        /\ \A q \in Positions : EntryAt(q) = name => (q = p \/ PosBefore(p, q))

DateBefore(a, b) ==
    \/ a[1] < b[1]
    \/ a[1] = b[1] /\ a[2] < b[2]
    \/ a[1] = b[1] /\ a[2] = b[2] /\ a[3] < b[3]

RECURSIVE SumOf(_, _, _)
SumOf(stats, field, n) ==
    IF n = 0 THEN 0 ELSE stats[n][field] + SumOf(stats, field, n - 1)

\* C1: after a run, every non-blank entry has exactly one PlayerStat whose
\* trimmed name is the entry's trimmed name, and that PlayerStat has
\* accumulated every entry with that trimmed name: entries share a PlayerStat
\* if and only if their trimmed names are identical.
C1_GroupedByTrimmedName ==
    Done =>
      \A pos \in NonBlankPositions :
        LET same == { k \in DOMAIN playerStats :
                        trim(playerStats[k].name) = trim(EntryAt(pos)) }
        IN /\ Cardinality(same) = 1
           /\ \A k \in same :
                playerStats[k].totalMatches =
                  Cardinality({ q \in NonBlankPositions :
                                  trim(EntryAt(q)) = trim(EntryAt(pos)) })

\* C2: after a run, totalMatches of each PlayerStat is the number of bookings
\* whose player list contains that player's name, also when the name occurs
\* more than once in one booking.
C2_TotalMatchesCountsBookings ==
    Done =>
      \A k \in DOMAIN playerStats :
        playerStats[k].totalMatches = Cardinality(BookingsWith(playerStats[k].name))

CourtTally(name, c) ==
    Cardinality({ i \in BookingsWith(name) : bookings[i].court = c })

FirstOnCourt(name, c) ==
    CHOOSE i \in BookingsWith(name) :
        /\ bookings[i].court = c
        /\ \A i2 \in BookingsWith(name) : bookings[i2].court = c => i <= i2

\* C3: after a run, favoriteCourt of each PlayerStat is a court with the highest
\* number of bookings containing the player, and among the courts with that
\* number it is the one whose first booking comes first in the input.
C3_FavoriteCourtFirstMax ==
    Done =>
      \A k \in DOMAIN playerStats :
        LET name == playerStats[k].name
            fav == playerStats[k].favoriteCourt
        IN /\ CourtTally(name, fav) >= 1
           /\ \A c \in Courts :
                /\ CourtTally(name, c) <= CourtTally(name, fav)
                /\ (c # fav /\ CourtTally(name, c) = CourtTally(name, fav))
                      => FirstOnCourt(name, fav) < FirstOnCourt(name, c)

\* Witness of C3: a player met once on court 3 and then once on court 1 has
\* favoriteCourt 3.
C3_Witness ==
    /\ Done
    /\ \E k \in DOMAIN playerStats :
         /\ CourtTally(playerStats[k].name, 3) = 1
         /\ CourtTally(playerStats[k].name, 1) = 1
         /\ FirstOnCourt(playerStats[k].name, 3) < FirstOnCourt(playerStats[k].name, 1)
         /\ playerStats[k].favoriteCourt = 3

\* C4: after a run, lastPlayed of each PlayerStat is the date of one of the
\* player's bookings and no booking of the player has a later calendar date,
\* whatever the order of the bookings.
C4_LastPlayedIsMaxDate ==
    Done =>
      \A k \in DOMAIN playerStats :
        LET mine == BookingsWith(playerStats[k].name)
        IN /\ \E i \in mine : bookings[i].date = playerStats[k].lastPlayed
           /\ \A i \in mine : ~DateBefore(playerStats[k].lastPlayed, bookings[i].date)

\* Witness of C4: a player booked on 2024-01-05 and, later in the input, on
\* 2023-12-30 has lastPlayed 2024-01-05.
C4_Witness ==
    /\ Done
    /\ \E k \in DOMAIN playerStats :
         /\ \E i1, i2 \in BookingsWith(playerStats[k].name) :
              /\ i1 < i2
              /\ bookings[i1].date = <<2024, 1, 5>>
              /\ bookings[i2].date = <<2023, 12, 30>>
         /\ playerStats[k].lastPlayed = <<2024, 1, 5>>

\* C5: after a run, singlesMatches + doublesMatches = totalMatches for every
\* PlayerStat, and so for the sums over the output.
C5_SinglesPlusDoubles ==
    Done =>
      /\ \A k \in DOMAIN playerStats :
           playerStats[k].singlesMatches + playerStats[k].doublesMatches
             = playerStats[k].totalMatches
      /\ SumOf(playerStats, "singlesMatches", Len(playerStats))
           + SumOf(playerStats, "doublesMatches", Len(playerStats))
           = SumOf(playerStats, "totalMatches", Len(playerStats))

\* Witness of C5: a player with both singles and doubles matches.
C5_Witness ==
    /\ Done
    /\ \E k \in DOMAIN playerStats :
         /\ playerStats[k].singlesMatches >= 1
         /\ playerStats[k].doublesMatches >= 1

\* C6: after a run, totalHours = 1 * singlesMatches + 2 * doublesMatches for
\* every PlayerStat.
C6_TotalHours ==
    Done =>
      \A k \in DOMAIN playerStats :
        playerStats[k].totalHours
          = 1 * playerStats[k].singlesMatches + 2 * playerStats[k].doublesMatches

\* Witness of C6: a player with 2 singles bookings and 1 doubles booking has
\* totalHours 4.
C6_Witness ==
    /\ Done
    /\ \E k \in DOMAIN playerStats :
         /\ playerStats[k].singlesMatches = 2
         /\ playerStats[k].doublesMatches = 1
         /\ playerStats[k].totalHours = 4

\* C7: the output is ordered by non-increasing totalMatches, and players with
\* equal totalMatches are in the order of their first entry in the input.
C7_SortedStable ==
    Done =>
      \A a, b \in DOMAIN playerStats :
        a < b =>
          /\ playerStats[a].totalMatches >= playerStats[b].totalMatches
          /\ playerStats[a].totalMatches = playerStats[b].totalMatches
               => PosBefore(FirstSeen(playerStats[a].name), FirstSeen(playerStats[b].name))

\* Witness of C7: the sort moved a player in front of one met earlier.
C7_Witness ==
    /\ Done
    /\ \E a, b \in DOMAIN playerStats :
         /\ a < b
         /\ playerStats[a].totalMatches > playerStats[b].totalMatches
         /\ PosBefore(FirstSeen(playerStats[b].name), FirstSeen(playerStats[a].name))

\* C8: after a run, the names of the output are exactly the entries of the
\* input that are not blank, each once; blank entries add to no count; and
\* every PlayerStat has totalMatches >= 1.
C8_NamesAreNonBlankEntries ==
    Done =>
      /\ OutputNames = { EntryAt(pos) : pos \in NonBlankPositions }
      /\ Cardinality(OutputNames) = Len(playerStats)
      /\ SumOf(playerStats, "totalMatches", Len(playerStats)) = Cardinality(NonBlankPositions)
      /\ \A k \in DOMAIN playerStats : playerStats[k].totalMatches >= 1
      /\ NonBlankPositions = {} => playerStats = <<>>

\* Witness of C8: an input with an empty entry and an all-whitespace entry
\* and no other gives an empty output.
C8_Witness ==
    /\ Done
    /\ \E p, q \in Positions : EntryAt(p) = <<>> /\ EntryAt(q) = <<" ">>
    /\ NonBlankPositions = {}
    /\ playerStats = <<>>

\* C9: a second run on the unchanged collection yields the output of the
\* first run.
C9_Idempotent ==
    runs >= 2 => playerStats = prevStats

\* Witness of C9: two runs were made on a collection with two players.
C9_Witness ==
    /\ runs >= 2
    /\ Len(playerStats) >= 2

\* C10: a run leaves the booking collection as it was.
C10_InputUnchanged ==
    [][bookings' = bookings]_vars

\* Witness of C10: a run was made on a collection with blank entries and
\* entries with surrounding whitespace.
C10_Witness ==
    /\ Done
    /\ \E p, q \in Positions : IsBlank(EntryAt(p)) /\ EntryAt(q) = <<" ", "A">>

(***************************************************************************)
(* EmailNotifications (src/unnamed/part_000).                              *)
(*                                                                         *)
(* sendNotifications reads emailAddresses and emailTemplate before its     *)
(* await (81, 89, 101-108) and only its local validEmails after it (125),  *)
(* so an edit of a field made while a batch is in flight commutes with the *)
(* batch: the edits are taken while no batch is in flight.                 *)
(***************************************************************************)
MaxEmails == 3
MaxTimers == 2

\* What the user can type in an address field: nothing, foo@bar,
\* foo@bar.com, and foo@bar.com after a space.
EmailInputs ==
    { <<>>,
      <<"a", "@", "b">>,
      <<"a", "@", "b", ".", "c">>,
      <<" ", "a", "@", "b", ".", "c">> }

\* What the user can type as subject or message.
Texts == { <<" ">>, <<"h", "\n", "i">> }

\* The character class [^\s@].
IsAtom(c) == c \notin Whitespace /\ c # "@"

\* [^\s@]+ matches s[lo..hi].
AllAtoms(s, lo, hi) == hi >= lo /\ \A k \in lo..hi : IsAtom(s[k])

\* /^[^\s@]+@[^\s@]+\.[^\s@]+$/.test(s)
EmailRegexTest(s) ==
    \E at \in DOMAIN s, dot \in DOMAIN s :
        /\ at < dot
        /\ s[at] = "@"
        /\ s[dot] = "."
        /\ AllAtoms(s, 1, at - 1)
        /\ AllAtoms(s, at + 1, dot - 1)
        /\ AllAtoms(s, dot + 1, Len(s))

IsValidEmail(email) ==
    LET trimmed == trim(email)
    IN trimmed # <<>> /\ EmailRegexTest(trimmed)

\* validateEmails (72-78): filter keeps the elements of emailAddresses.
validateEmails == SelectSeq(emailAddresses, IsValidEmail)

\* message.replace(/\n/g, '<br>')
RECURSIVE ReplaceNewlines(_)
ReplaceNewlines(s) ==
    IF s = <<>> THEN <<>>
    ELSE (IF Head(s) = "\n" THEN <<"<", "b", "r", ">">> ELSE <<Head(s)>>)
         \o ReplaceNewlines(Tail(s))

\* blink.notifications.email(...): the request of one email promise.
EmailRequest(email) ==
    [to |-> email,
     subject |-> emailTemplate.subject,
     html |-> ReplaceNewlines(emailTemplate.message),
     text |-> emailTemplate.message,
     status |-> "pending"]

Pending == { i \in DOMAIN sends : sends[i].status = "pending" }

Rejected == { i \in DOMAIN sends : sends[i].status = "rejected" }

FailedMessage(failed, total) ==
    "Failed to send " \o ToString(failed) \o " out of " \o ToString(total) \o " emails."

\* Dialog onOpenChange / DialogTrigger (146-152).
OpenDialog ==
    /\ ~isOpen
    /\ isOpen' = TRUE
    /\ UNCHANGED <<emailAddresses, emailTemplate, isSending, sendStatus,
                   errorMessage, sends, mailPc, timers>>
    /\ UNCHANGED <<statsVars, appVars>>

\* Dialog onOpenChange / Cancel (146, 271).
CloseDialog ==
    /\ isOpen
    /\ isOpen' = FALSE
    /\ UNCHANGED <<emailAddresses, emailTemplate, isSending, sendStatus,
                   errorMessage, sends, mailPc, timers>>
    /\ UNCHANGED <<statsVars, appVars>>

\* addEmailField (56-58).
addEmailField ==
    /\ isOpen
    /\ mailPc = "idle"
    /\ Len(emailAddresses) < MaxEmails
    /\ emailAddresses' = Append(emailAddresses, <<>>)
    /\ UNCHANGED <<isOpen, emailTemplate, isSending, sendStatus,
                   errorMessage, sends, mailPc, timers>>
    /\ UNCHANGED <<statsVars, appVars>>

\* removeEmailField (60-64); the Remove button is shown for more than one field.
removeEmailField(index) ==
    /\ isOpen
    /\ mailPc = "idle"
    /\ Len(emailAddresses) > 1
    /\ emailAddresses' = [k \in 1..(Len(emailAddresses) - 1) |->
                            IF k < index THEN emailAddresses[k] ELSE emailAddresses[k + 1]]
    /\ UNCHANGED <<isOpen, emailTemplate, isSending, sendStatus,
                   errorMessage, sends, mailPc, timers>>
    /\ UNCHANGED <<statsVars, appVars>>

\* updateEmailAddress (66-70).
updateEmailAddress(index, value) ==
    /\ isOpen
    /\ mailPc = "idle"
    /\ emailAddresses[index] # value
    /\ emailAddresses' = [emailAddresses EXCEPT ![index] = value]
    /\ UNCHANGED <<isOpen, emailTemplate, isSending, sendStatus,
                   errorMessage, sends, mailPc, timers>>
    /\ UNCHANGED <<statsVars, appVars>>

\* onChange of the subject input (232-236).
setSubject(value) ==
    /\ isOpen
    /\ mailPc = "idle"
    /\ emailTemplate.subject # value
    /\ emailTemplate' = [emailTemplate EXCEPT !.subject = value]
    /\ UNCHANGED <<isOpen, emailAddresses, isSending, sendStatus,
                   errorMessage, sends, mailPc, timers>>
    /\ UNCHANGED <<statsVars, appVars>>

\* onChange of the message textarea (241-247).
setMessage(value) ==
    /\ isOpen
    /\ mailPc = "idle"
    /\ emailTemplate.message # value
    /\ emailTemplate' = [emailTemplate EXCEPT !.message = value]
    /\ UNCHANGED <<isOpen, emailAddresses, isSending, sendStatus,
                   errorMessage, sends, mailPc, timers>>
    /\ UNCHANGED <<statsVars, appVars>>

\* validEmails.length === 0 (83).
NoValidEmails == Len(validateEmails) = 0

\* Variant of BlankTemplate: only the subject is checked.
BlankTemplate_SubjectOnly == trim(emailTemplate.subject) = <<>>

\* !emailTemplate.subject.trim() || !emailTemplate.message.trim() (89).
BlankTemplate ==
    trim(emailTemplate.subject) = <<>> \/ trim(emailTemplate.message) = <<>>

\* sendNotifications 83-87: no valid address.
RejectNoRecipient ==
    /\ errorMessage' = "Please enter at least one valid email address."
    /\ sendStatus' = "error"
    /\ UNCHANGED <<isSending, sends, mailPc>>

\* sendNotifications 89-93: blank subject or message.
RejectBlankTemplate ==
    /\ errorMessage' = "Please fill in both subject and message."
    /\ sendStatus' = "error"
    /\ UNCHANGED <<isSending, sends, mailPc>>

\* sendNotifications 95-110: one email promise per valid address, then the
\* function waits at Promise.allSettled.
Dispatch ==
    /\ timers < MaxTimers
    /\ isSending' = TRUE
    /\ sendStatus' = "idle"
    /\ errorMessage' = ""
    /\ sends' = [i \in DOMAIN validateEmails |-> EmailRequest(validateEmails[i])]
    /\ mailPc' = "awaiting"

\* sendNotifications 80-110, from the click on the Send button (274-276,
\* disabled while isSending) to the await.
sendNotifications ==
    /\ isOpen
    /\ ~isSending
    /\ mailPc = "idle"
    /\ IF NoValidEmails THEN RejectNoRecipient
       ELSE IF BlankTemplate THEN RejectBlankTemplate
       ELSE Dispatch
    /\ UNCHANGED <<isOpen, emailAddresses, emailTemplate, timers>>
    /\ UNCHANGED <<statsVars, appVars>>

\* The notification service settles one email promise.
SettleSend(i, outcome) ==
    /\ i \in Pending
    /\ sends' = [sends EXCEPT ![i].status = outcome]
    /\ UNCHANGED <<isOpen, emailAddresses, emailTemplate, isSending, sendStatus,
                   errorMessage, mailPc, timers>>
    /\ UNCHANGED <<statsVars, appVars>>

\* Variant of ResumeSendNotifications: Promise.all, which rejects with the
\* first rejected send and takes the catch branch.
ResumeSendNotifications_PromiseAll ==
    /\ mailPc = "awaiting"
    /\ Pending = {} \/ Rejected # {}
    /\ IF Cardinality(Rejected) = 0
       THEN /\ sendStatus' = "success"
            /\ timers' = timers + 1
            /\ UNCHANGED errorMessage
       ELSE /\ errorMessage' = "Failed to send email notifications. Please try again."
            /\ sendStatus' = "error"
            /\ UNCHANGED timers
    /\ isSending' = FALSE
    /\ mailPc' = "idle"
    /\ sends' = <<>>
    /\ UNCHANGED <<isOpen, emailAddresses, emailTemplate>>
    /\ UNCHANGED <<statsVars, appVars>>

\* Variant of ResumeSendNotifications: isSending is reset on success only.
ResumeSendNotifications_NoFinally ==
    /\ mailPc = "awaiting"
    /\ Pending = {}
    /\ IF Cardinality(Rejected) = 0
       THEN /\ sendStatus' = "success"
            /\ timers' = timers + 1
            /\ isSending' = FALSE
            /\ UNCHANGED errorMessage
       ELSE /\ errorMessage' = FailedMessage(Cardinality(Rejected), Len(sends))
            /\ sendStatus' = "error"
            /\ UNCHANGED <<timers, isSending>>
    /\ mailPc' = "idle"
    /\ sends' = <<>>
    /\ UNCHANGED <<isOpen, emailAddresses, emailTemplate>>
    /\ UNCHANGED <<statsVars, appVars>>

\* sendNotifications 110-133: Promise.allSettled has resolved.
ResumeSendNotifications ==
    /\ mailPc = "awaiting"
    /\ Pending = {}
    /\ IF Cardinality(Rejected) = 0
       THEN /\ sendStatus' = "success"
            /\ timers' = timers + 1
            /\ UNCHANGED errorMessage
       ELSE /\ errorMessage' = FailedMessage(Cardinality(Rejected), Len(sends))
            /\ sendStatus' = "error"
            /\ UNCHANGED timers
    /\ isSending' = FALSE
    /\ mailPc' = "idle"
    /\ sends' = <<>>
    /\ UNCHANGED <<isOpen, emailAddresses, emailTemplate>>
    /\ UNCHANGED <<statsVars, appVars>>

\* The callback of setTimeout (120-123).
CloseTimerFires ==
    /\ timers > 0
    /\ timers' = timers - 1
    /\ isOpen' = FALSE
    /\ sendStatus' = "idle"
    /\ UNCHANGED <<emailAddresses, emailTemplate, isSending, errorMessage, sends, mailPc>>
    /\ UNCHANGED <<statsVars, appVars>>

StatsInitIdle ==
    /\ bookings = <<>>
    /\ statsMap = <<>>
    /\ playerStats = <<>>
    /\ prevStats = <<>>
    /\ runs = 0

InitMail == StatsInitIdle /\ MailInit /\ AppIdle

NextMail ==
    \/ OpenDialog
    \/ CloseDialog
    \/ addEmailField
    \/ \E index \in DOMAIN emailAddresses : removeEmailField(index)
    \/ \E index \in DOMAIN emailAddresses, value \in EmailInputs :
          updateEmailAddress(index, value)
    \/ \E value \in Texts : setSubject(value)
    \/ \E value \in Texts : setMessage(value)
    \/ sendNotifications
    \/ \E i \in DOMAIN sends, outcome \in {"fulfilled", "rejected"} : SettleSend(i, outcome)
    \/ ResumeSendNotifications
    \/ CloseTimerFires

SpecMail == InitMail /\ [][NextMail]_vars

\* Every email promise settles and the continuation of the await runs.
SpecMailFair ==
    /\ SpecMail
    /\ WF_vars(\E i \in DOMAIN sends, outcome \in {"fulfilled", "rejected"} :
                  SettleSend(i, outcome))
    /\ WF_vars(ResumeSendNotifications)

\* The shape local-part@domain.tld without whitespace.
AddressShape(s) ==
    /\ \A k \in DOMAIN s : s[k] \notin Whitespace
    /\ \E at \in DOMAIN s, dot \in DOMAIN s :
          /\ s[at] = "@" /\ at > 1
          /\ s[dot] = "." /\ dot > at + 1 /\ dot < Len(s)

ValidFields == { i \in DOMAIN emailAddresses : IsValidEmail(emailAddresses[i]) }

SomePending == \E i \in DOMAIN sends : sends[i].status = "pending"

FailedCount == Cardinality({ i \in DOMAIN sends : sends[i].status = "rejected" })

\* C11: a dispatch launches one pending send per valid address field; while a
\* send is pending the status stays 'idle'; and the step that reports the
\* batch is taken with every send settled and sets 'success' if and only if
\* no send was rejected, else 'error' with "Failed to send k out of n emails."
C11_BatchOutcome ==
    /\ [](SomePending => sendStatus = "idle")
    /\ [][(mailPc = "idle" /\ mailPc' = "awaiting") =>
            /\ Len(sends') = Cardinality(ValidFields)
            /\ \A i \in DOMAIN sends' : sends'[i].status = "pending"]_vars
    /\ [][(mailPc = "awaiting" /\ mailPc' = "idle") =>
            /\ ~SomePending
            /\ sendStatus' = "success" <=> FailedCount = 0
            /\ FailedCount # 0 =>
                  /\ sendStatus' = "error"
                  /\ errorMessage' = "Failed to send " \o ToString(FailedCount)
                                       \o " out of " \o ToString(Len(sends)) \o " emails."]_vars

\* Witness of C11: a batch of 3 sends with 1 rejected was reported.
C11_Witness ==
    /\ mailPc = "idle"
    /\ sendStatus = "error"
    /\ errorMessage = "Failed to send 1 out of 3 emails."

\* C12: a run of sendNotifications with no valid address, or with a subject
\* or message that is blank after trimming, sets 'error' with a message,
\* launches no send and leaves isSending false.
C12_RejectedBeforeDispatch ==
    [][(/\ sendNotifications
        /\ \/ ValidFields = {}
           \/ IsBlank(emailTemplate.subject)
           \/ IsBlank(emailTemplate.message))
       => /\ sendStatus' = "error"
          /\ errorMessage' # ""
          /\ sends' = <<>>
          /\ ~isSending'
          /\ mailPc' = "idle"]_vars

\* Witness of C12: a valid address with a blank message was rejected.
C12_Witness ==
    /\ ValidFields # {}
    /\ IsBlank(emailTemplate.message)
    /\ ~IsBlank(emailTemplate.subject)
    /\ sendStatus = "error"
    /\ errorMessage = "Please fill in both subject and message."
    /\ sends = <<>>
    /\ ~isSending

\* C13: every address to which a send is issued has the shape
\* local-part@domain.tld without whitespace, whatever was typed.
C13_SendsHaveAddressShape ==
    \A i \in DOMAIN sends : AddressShape(sends[i].to)

MaxStored == 2

DateInputs == { <<2024, 1, 7>>, <<2024, 1, 8>>, <<2024, 1, 14>> }

\* Object.keys(localStorage): the order of the keys is the browser's; the
\* model lists them by date.
StorageKeys == << <<2024, 1, 7>>, <<2024, 1, 8>>, <<2024, 1, 14>> >>

\* The local calendar day at UTC midnight is the UTC day east of Greenwich
\* and the day before west of it.
TimeZones == {-1, 0}

\* The cells of the grid that are clicked.
AppCells == { [court |-> 1, timeSlot |-> TIME_SLOTS.singles[1], type |-> "singles"],
              [court |-> 1, timeSlot |-> TIME_SLOTS.doubles[1], type |-> "doubles"] }

PlayerTexts == { <<>>, <<"A">> }

DaysInMonth(y, m) ==
    IF m = 12 THEN 31 ELSE DaysBeforeMonth(y, m + 1) - DaysBeforeMonth(y, m)

PrevDay(d) ==
    IF d[3] > 1 THEN <<d[1], d[2], d[3] - 1>>
    ELSE IF d[2] > 1 THEN <<d[1], d[2] - 1, DaysInMonth(d[1], d[2] - 1)>>
    ELSE <<d[1] - 1, 12, 31>>

\* new Date(dateStr) is UTC midnight of the date; getDay and getMonth read
\* it in local time.
LocalDate(dateStr) == IF tzShift < 0 THEN PrevDay(dateStr) ELSE dateStr

\* 1970-01-01 was a Thursday.
getDay(dateStr) == (NewDate(LocalDate(dateStr)) + 4) % 7

getMonth(dateStr) == LocalDate(dateStr)[2] - 1

isValidBookingDate(dateStr) ==
    LET dayOfWeek == getDay(dateStr)
        month == getMonth(dateStr) + 1
    IN IF dayOfWeek # 0 THEN FALSE
       ELSE month >= 9 \/ month <= 4

\* JSON.stringify of a Booking[]: the brackets and, for each booking, the
\* values of its six properties in order.
RECURSIVE StringifyFrom(_, _)
StringifyFrom(bs, i) ==
    IF i > Len(bs) THEN <<>>
    ELSE << bs[i].id, bs[i].court, bs[i].timeSlot, bs[i].players, bs[i].type, bs[i].date >>
         \o StringifyFrom(bs, i + 1)

JSONStringify(bs) == <<"[">> \o StringifyFrom(bs, 1) \o <<"]">>

JSONParse(text) ==
    [ i \in 1..((Len(text) - 2) \div 6) |->
        LET o == 1 + 6 * (i - 1)
        IN [id |-> text[o + 1], court |-> text[o + 2], timeSlot |-> text[o + 3],
            players |-> text[o + 4], type |-> text[o + 5], date |-> text[o + 6]] ]

\* localStorage is a function from the dates whose key is present to the
\* stored text.
HasItem(store, date) == date \in DOMAIN store

\* if (saved): the item is present and its text is not empty.
Truthy(store, date) == HasItem(store, date) /\ store[date] # <<>>

SetItem(store, date, text) ==
    [ d \in DOMAIN store \cup {date} |-> IF d = date THEN text ELSE store[d] ]

RECURSIVE LoadAllFrom(_, _)
LoadAllFrom(store, k) ==
    IF k > Len(StorageKeys) THEN <<>>
    ELSE (IF Truthy(store, StorageKeys[k]) THEN JSONParse(store[StorageKeys[k]]) ELSE <<>>)
         \o LoadAllFrom(store, k + 1)

\* The array loadAllBookings hands to setAllBookings.
loadAllBookings(store) == LoadAllFrom(store, 1)

SameSlot(b, e) == b.court = e.court /\ b.timeSlot = e.timeSlot

getBooking(court, timeSlot) ==
    LET found == SelectSeq(appBookings,
                           LAMBDA b : b.court = court /\ b.timeSlot = timeSlot)
    IN IF found = <<>> THEN Null ELSE found[1]

RECURSIVE PadTo(_, _)
PadTo(players, expectedLength) ==
    IF Len(players) < expectedLength THEN PadTo(Append(players, <<>>), expectedLength)
    ELSE players

\* arr[index] = value on a copy of the array; an index past the end
\* lengthens the array.
SetAt(arr, index, value) ==
    [ k \in 1..(IF index > Len(arr) THEN index ELSE Len(arr)) |->
        IF k = index THEN value ELSE IF k <= Len(arr) THEN arr[k] ELSE <<>> ]

\* The render after a handler: the effects whose dependencies changed are
\* to run.
Rendered(effects) ==
    /\ pendingEffects' = effects
    /\ appPc' = IF effects = {} THEN "idle" ELSE "effects"
    /\ queued' = [bookings |-> <<>>, allBookings |-> <<>>]

AppQuiescent == appPc = "idle"

dialogVars == <<isDialogOpen, editingBooking, playerInputs>>

\* App 28-38 and the first render: the App mounts over the store it finds.
Mount(today) ==
    /\ AppQuiescent
    /\ selectedDate' = today
    /\ appBookings' = <<>>
    /\ allBookings' = <<>>
    /\ isDialogOpen' = FALSE
    /\ editingBooking' = Null
    /\ playerInputs' = << <<>>, <<>>, <<>>, <<>> >>
    /\ beforeChange' = <<>>
    /\ Rendered({"load", "save"})
    /\ UNCHANGED <<localStorage, tzShift>>
    /\ UNCHANGED <<statsVars, mailVars>>

\* App 188-194: the date input.
setSelectedDate(value) ==
    /\ AppQuiescent
    /\ ~isDialogOpen
    /\ value # selectedDate
    /\ selectedDate' = value
    /\ beforeChange' = <<localStorage>>
    /\ Rendered({"load", "save"})
    /\ UNCHANGED <<appBookings, allBookings, dialogVars, localStorage, tzShift>>
    /\ UNCHANGED <<statsVars, mailVars>>

LoadEffect_KeepWhenAbsent ==
    /\ appPc = "effects"
    /\ "load" \in pendingEffects
    /\ queued' = [bookings |-> IF Truthy(localStorage, selectedDate)
                               THEN <<JSONParse(localStorage[selectedDate])>>
                               ELSE <<>>,
                  allBookings |-> <<loadAllBookings(localStorage)>>]
    /\ pendingEffects' = pendingEffects \ {"load"}
    /\ UNCHANGED <<selectedDate, appBookings, allBookings, dialogVars, localStorage,
                   tzShift, appPc, beforeChange>>
    /\ UNCHANGED <<statsVars, mailVars>>

\* App 72-82: the effect of [selectedDate].
LoadEffect ==
    /\ appPc = "effects"
    /\ "load" \in pendingEffects
    /\ queued' = [bookings |-> IF Truthy(localStorage, selectedDate)
                               THEN <<JSONParse(localStorage[selectedDate])>>
                               ELSE << <<>> >>,
                  allBookings |-> <<loadAllBookings(localStorage)>>]
    /\ pendingEffects' = pendingEffects \ {"load"}
    /\ UNCHANGED <<selectedDate, appBookings, allBookings, dialogVars, localStorage,
                   tzShift, appPc, beforeChange>>
    /\ UNCHANGED <<statsVars, mailVars>>

SaveEffect_LoadBeforeWrite ==
    /\ appPc = "effects"
    /\ pendingEffects = {"save"}
    /\ localStorage' = SetItem(localStorage, selectedDate, JSONStringify(appBookings))
    /\ queued' = [queued EXCEPT !.allBookings = <<loadAllBookings(localStorage)>>]
    /\ pendingEffects' = {}
    /\ appPc' = "render"
    /\ UNCHANGED <<selectedDate, appBookings, allBookings, dialogVars, tzShift, beforeChange>>
    /\ UNCHANGED <<statsVars, mailVars>>

\* App 85-89: the effect of [bookings, selectedDate]; bookings is the value
\* of the render the effect belongs to.
SaveEffect ==
    /\ appPc = "effects"
    /\ pendingEffects = {"save"}
    /\ LET store == SetItem(localStorage, selectedDate, JSONStringify(appBookings))
       IN /\ localStorage' = store
          /\ queued' = [queued EXCEPT !.allBookings = <<loadAllBookings(store)>>]
    /\ pendingEffects' = {}
    /\ appPc' = "render"
    /\ UNCHANGED <<selectedDate, appBookings, allBookings, dialogVars, tzShift, beforeChange>>
    /\ UNCHANGED <<statsVars, mailVars>>

\* The render that applies the state updates the effects queued; a new
\* bookings array makes the save effect run again.
Rerender ==
    /\ appPc = "render"
    /\ appBookings' = IF queued.bookings # <<>> THEN queued.bookings[1] ELSE appBookings
    /\ allBookings' = IF queued.allBookings # <<>> THEN queued.allBookings[1] ELSE allBookings
    /\ Rendered(IF queued.bookings # <<>> THEN {"save"} ELSE {})
    /\ UNCHANGED <<selectedDate, dialogVars, localStorage, tzShift, beforeChange>>
    /\ UNCHANGED <<statsVars, mailVars>>

ExpectedLength(type) == IF type = "singles" THEN 2 ELSE 4

\* App 95-115: a click on a cell of the grid (the open dialog is modal).
handleCellClick(court, timeSlot, type) ==
    /\ AppQuiescent
    /\ ~isDialogOpen
    /\ IF ~isValidBookingDate(selectedDate)
       THEN UNCHANGED <<playerInputs, editingBooking, isDialogOpen, beforeChange>>
       ELSE LET existing == getBooking(court, timeSlot)
            IN /\ playerInputs' = IF existing # Null
                                  THEN PadTo(existing.players, ExpectedLength(type))
                                  ELSE PadTo(<<>>, ExpectedLength(type))
               /\ editingBooking' = [court |-> court, timeSlot |-> timeSlot, type |-> type]
               /\ isDialogOpen' = TRUE
               /\ beforeChange' = <<>>
    /\ Rendered({})
    /\ UNCHANGED <<selectedDate, appBookings, allBookings, localStorage, tzShift>>
    /\ UNCHANGED <<statsVars, mailVars>>

onPlayerInputChange_AllFields(index, value) ==
    /\ AppQuiescent
    /\ isDialogOpen
    /\ playerInputs' = SetAt(playerInputs, index, value)
    /\ playerInputs' # playerInputs
    /\ Rendered({})
    /\ UNCHANGED <<selectedDate, appBookings, allBookings, isDialogOpen, editingBooking,
                   localStorage, tzShift, beforeChange>>
    /\ UNCHANGED <<statsVars, mailVars>>

\* App 392-476: the inputs of the dialog, two for singles and four for
\* doubles.
onPlayerInputChange(index, value) ==
    /\ AppQuiescent
    /\ isDialogOpen
    /\ index <= ExpectedLength(editingBooking.type)
    /\ playerInputs' = SetAt(playerInputs, index, value)
    /\ playerInputs' # playerInputs
    /\ Rendered({})
    /\ UNCHANGED <<selectedDate, appBookings, allBookings, isDialogOpen, editingBooking,
                   localStorage, tzShift, beforeChange>>
    /\ UNCHANGED <<statsVars, mailVars>>

\* App 375: the dialog is dismissed.
onOpenChange ==
    /\ AppQuiescent
    /\ isDialogOpen
    /\ isDialogOpen' = FALSE
    /\ Rendered({})
    /\ UNCHANGED <<selectedDate, appBookings, allBookings, editingBooking, playerInputs,
                   localStorage, tzShift, beforeChange>>
    /\ UNCHANGED <<statsVars, mailVars>>

NotBlank(p) == trim(p) # <<>>

OtherSlots_SameCourt(prev, e) == SelectSeq(prev, LAMBDA b : ~(b.court = e.court))

\* App 123-125, 137-139, 152-154: the bookings of the other slots.
OtherSlots(prev, e) == SelectSeq(prev, LAMBDA b : ~SameSlot(b, e))

NewBooking(e, filteredPlayers) ==
    [id |-> <<e.court, e.timeSlot>>,
     court |-> e.court,
     timeSlot |-> e.timeSlot,
     players |-> filteredPlayers,
     type |-> e.type,
     date |-> selectedDate]

SavedBookings_NoFilter(prev, e, inputs) ==
    LET filteredPlayers == SelectSeq(inputs, NotBlank)
    IN IF Len(filteredPlayers) = 0 THEN OtherSlots(prev, e)
       ELSE Append(prev, NewBooking(e, filteredPlayers))

\* App 120-142: the array handleSaveBooking sets.
SavedBookings(prev, e, inputs) ==
    LET filteredPlayers == SelectSeq(inputs, NotBlank)
    IN IF Len(filteredPlayers) = 0 THEN OtherSlots(prev, e)
       ELSE Append(OtherSlots(prev, e), NewBooking(e, filteredPlayers))

\* The dialog closes and forgets its slot: App 144-146, 156-158.
DialogReset ==
    /\ isDialogOpen' = FALSE
    /\ editingBooking' = Null
    /\ playerInputs' = << <<>>, <<>>, <<>>, <<>> >>

\* App 117-147.
handleSaveBooking ==
    /\ AppQuiescent
    /\ isDialogOpen
    /\ editingBooking # Null
    /\ Len(allBookings) - Len(appBookings)
         + Len(SavedBookings(appBookings, editingBooking, playerInputs)) <= MaxStored
    /\ appBookings' = SavedBookings(appBookings, editingBooking, playerInputs)
    /\ DialogReset
    /\ beforeChange' = <<>>
    /\ Rendered({"save"})
    /\ UNCHANGED <<selectedDate, allBookings, localStorage, tzShift>>
    /\ UNCHANGED <<statsVars, mailVars>>

\* App 149-159; the button is shown for a booked slot only (480-484).
handleDeleteBooking ==
    /\ AppQuiescent
    /\ isDialogOpen
    /\ editingBooking # Null
    /\ getBooking(editingBooking.court, editingBooking.timeSlot) # Null
    /\ appBookings' = OtherSlots(appBookings, editingBooking)
    /\ DialogReset
    /\ beforeChange' = <<>>
    /\ Rendered({"save"})
    /\ UNCHANGED <<selectedDate, allBookings, localStorage, tzShift>>
    /\ UNCHANGED <<statsVars, mailVars>>

\* App 161-163; the button is disabled on a date that is not bookable (201).
clearAllBookings ==
    /\ AppQuiescent
    /\ ~isDialogOpen
    /\ isValidBookingDate(selectedDate)
    /\ appBookings' = <<>>
    /\ beforeChange' = <<>>
    /\ Rendered({"save"})
    /\ UNCHANGED <<selectedDate, allBookings, dialogVars, localStorage, tzShift>>
    /\ UNCHANGED <<statsVars, mailVars>>

\* The first render of the App, in some time zone, over an empty store.
InitApp ==
    /\ StatsInitIdle
    /\ MailInit
    /\ selectedDate \in DateInputs
    /\ tzShift \in TimeZones
    /\ appBookings = <<>>
    /\ allBookings = <<>>
    /\ isDialogOpen = FALSE
    /\ editingBooking = Null
    /\ playerInputs = << <<>>, <<>>, <<>>, <<>> >>
    /\ localStorage = <<>>
    /\ appPc = "effects"
    /\ pendingEffects = {"load", "save"}
    /\ queued = [bookings |-> <<>>, allBookings |-> <<>>]
    /\ beforeChange = <<>>

NextApp ==
    \/ \E today \in DateInputs : Mount(today)
    \/ \E value \in DateInputs : setSelectedDate(value)
    \/ LoadEffect
    \/ SaveEffect
    \/ Rerender
    \/ \E cell \in AppCells : handleCellClick(cell.court, cell.timeSlot, cell.type)
    \/ \E index \in 1..4, value \in PlayerTexts : onPlayerInputChange(index, value)
    \/ onOpenChange
    \/ handleSaveBooking
    \/ handleDeleteBooking
    \/ clearAllBookings

SpecApp == InitApp /\ [][NextApp]_vars

(***************************************************************************)
(* The booking dialog on one bookable date, with inputs that tell a blank  *)
(* text from an empty one and one name from another.                       *)
(***************************************************************************)
EditTexts == { <<>>, <<" ">>, <<"A">>, <<" ", "A">> }

\* The cells that are clicked: two courts in one time slot and two time
\* slots on one court.
EditCells == { [court |-> 1, timeSlot |-> TIME_SLOTS.singles[1], type |-> "singles"],
               [court |-> 2, timeSlot |-> TIME_SLOTS.singles[1], type |-> "singles"],
               [court |-> 1, timeSlot |-> TIME_SLOTS.singles[2], type |-> "singles"] }

\* The first render of the App on a Sunday in January, east of Greenwich,
\* over an empty store.
InitEdit ==
    /\ InitApp
    /\ selectedDate = <<2024, 1, 7>>
    /\ tzShift = 0

NextEdit ==
    \/ LoadEffect
    \/ SaveEffect
    \/ Rerender
    \/ \E cell \in EditCells : handleCellClick(cell.court, cell.timeSlot, cell.type)
    \/ \E index \in 1..4, value \in EditTexts : onPlayerInputChange(index, value)
    \/ onOpenChange
    \/ handleSaveBooking
    \/ handleDeleteBooking
    \/ clearAllBookings

SpecEdit == InitEdit /\ [][NextEdit]_vars

(***************************************************************************)
(* Claims about the booking store.                                         *)
(***************************************************************************)
\* The bookings stored under the key of a date.
Partition(store, d) == IF HasItem(store, d) THEN JSONParse(store[d]) ELSE <<>>

CountIn(seq, b) == Cardinality({ i \in DOMAIN seq : seq[i] = b })

CountStored(store, b) ==
    Cardinality(UNION { { <<d, i>> : i \in { k \in DOMAIN Partition(store, d) :
                                                Partition(store, d)[k] = b } } :
                        d \in DOMAIN store })

StoredSet(store) ==
    UNION { { Partition(store, d)[i] : i \in DOMAIN Partition(store, d) } : d \in DOMAIN store }

\* C15: whenever the App is quiescent, the collection passed to the
\* aggregator holds every stored booking exactly as often as the stored
\* partitions together hold it, and nothing else, and it holds the current
\* bookings of the selected date.
C15_AllBookingsIsStoreUnion ==
    AppQuiescent =>
        /\ \A b \in StoredSet(localStorage) \cup { allBookings[i] : i \in DOMAIN allBookings } :
             CountIn(allBookings, b) = CountStored(localStorage, b)
        /\ \A i \in DOMAIN appBookings : CountIn(allBookings, appBookings[i]) >= 1

C15_Witness ==
    /\ AppQuiescent
    /\ Len(allBookings) = 2
    /\ \E d \in DOMAIN localStorage :
         d # selectedDate /\ Len(Partition(localStorage, d)) = 1 /\ Len(appBookings) = 1

\* Every booking the App holds: in the store or in its bookings state.
HeldBookings == StoredSet(localStorage) \cup { appBookings[i] : i \in DOMAIN appBookings }

\* C16, as stated: every stored singles booking has a player list of length
\* 2 and every stored doubles booking one of length at most 4.
C16_PlayerListLengths ==
    \A b \in HeldBookings :
        /\ b.type = "singles" => Len(b.players) = 2
        /\ b.type = "doubles" => Len(b.players) <= 4

\* C16, amended: every stored singles booking has a player list of length 1
\* or 2 (the blank inputs are not stored) and every stored doubles booking
\* one of length at most 4.
C16_PlayerListLengthsAtMost ==
    \A b \in HeldBookings :
        /\ b.type = "singles" => Len(b.players) \in 1..2
        /\ b.type = "doubles" => Len(b.players) <= 4

C16_Witness ==
    /\ AppQuiescent
    /\ \E b \in StoredSet(localStorage) : b.type = "singles" /\ Len(b.players) = 1
    /\ \E b \in StoredSet(localStorage) : b.type = "doubles" /\ Len(b.players) = 4

\* The day of the week of a calendar date, 0 for Sunday.
DayOfWeek(d) == (NewDate(d) + 4) % 7

SundayInSeason(d) == DayOfWeek(d) = 0 /\ (d[2] >= 9 \/ d[2] <= 4)

\* C17: every booking held in storage has a date that is a Sunday in the
\* months September through April.
C17_StoredDatesAreSundaysInSeason ==
    \A b \in HeldBookings : SundayInSeason(b.date)

\* C18: in every reachable state each stored partition holds only bookings
\* whose date is the date of the partition's key.
C18_PartitionHoldsItsDate ==
    \A d \in DOMAIN localStorage :
        \A i \in DOMAIN Partition(localStorage, d) : Partition(localStorage, d)[i].date = d

\* C19: once the effects of a change of the selected date have run to
\* quiescence, the bookings shown are those that were stored for the new
\* date before the change (none when there was no partition), and the
\* bookings stored for every other date are those stored before the change.
C19_DateChangeReadsStore ==
    (AppQuiescent /\ beforeChange # <<>>) =>
        /\ appBookings = Partition(beforeChange[1], selectedDate)
        /\ \A d \in DateInputs \ {selectedDate} :
             Partition(localStorage, d) = Partition(beforeChange[1], d)

C19_Witness ==
    /\ AppQuiescent
    /\ beforeChange # <<>>
    /\ appBookings # <<>>
    /\ \E d \in DateInputs \ {selectedDate} : Partition(beforeChange[1], d) # <<>>

OnePerSlot(bs) == \A i, j \in DOMAIN bs : SameSlot(bs[i], bs[j]) => i = j

\* C20: the bookings of a date, shown or stored, hold at most one booking
\* for each pair of court and time slot.
C20_OneBookingPerSlot ==
    /\ OnePerSlot(appBookings)
    /\ \A d \in DOMAIN localStorage : OnePerSlot(Partition(localStorage, d))

\* A save has just replaced the booking of a slot: the store still holds the
\* booking with the players it had.
C20_Witness ==
    /\ appPc = "effects"
    /\ pendingEffects = {"save"}
    /\ beforeChange = <<>>
    /\ Len(appBookings) = 2
    /\ \E i \in DOMAIN appBookings, k \in DOMAIN Partition(localStorage, selectedDate) :
         /\ SameSlot(appBookings[i], Partition(localStorage, selectedDate)[k])
         /\ appBookings[i].players # Partition(localStorage, selectedDate)[k].players

\* The bookings of bs that are not of the slot e, in their order.
NotOfSlot(bs, e) ==
    SelectSeq(bs, LAMBDA b : b.court # e.court \/ b.timeSlot # e.timeSlot)

OfSlot(bs, e) ==
    SelectSeq(bs, LAMBDA b : b.court = e.court /\ b.timeSlot = e.timeSlot)

\* The positions of the inputs that are not blank, and the inputs at those
\* positions in their order.
NonBlankInputs(inputs) == { k \in DOMAIN inputs : ~IsBlank(inputs[k]) }

NthNonBlank(inputs, n) ==
    CHOOSE k \in NonBlankInputs(inputs) :
        Cardinality({ q \in NonBlankInputs(inputs) : q < k }) = n - 1

NonBlankInOrder(inputs) ==
    [ n \in 1..Cardinality(NonBlankInputs(inputs)) |-> inputs[NthNonBlank(inputs, n)] ]

SlotRemoved == OfSlot(appBookings', editingBooking) = <<>>

SlotStored ==
    /\ Len(OfSlot(appBookings', editingBooking)) = 1
    /\ OfSlot(appBookings', editingBooking)[1].players = NonBlankInOrder(playerInputs)

OtherSlotsKept ==
    NotOfSlot(appBookings', editingBooking) = NotOfSlot(appBookings, editingBooking)

\* C21: a delete, and a save whose inputs are all blank, leave no booking of
\* the edited court and time slot; a save with an input that is not blank
\* leaves one booking of the slot, whose players are the inputs that are not
\* blank in their order; either leaves the bookings of every other court or
\* time slot as they were.
C21_SaveAndDeleteFrame ==
    /\ [][handleDeleteBooking => (SlotRemoved /\ OtherSlotsKept)]_vars
    /\ [][handleSaveBooking =>
            /\ OtherSlotsKept
            /\ IF NonBlankInputs(playerInputs) = {} THEN SlotRemoved ELSE SlotStored]_vars

\* A save has just replaced the booking of a slot, with a blank input left
\* out: the store still holds the booking the slot had, and the booking of
\* the other slot is the one the store holds.
C21_Witness ==
    /\ appPc = "effects"
    /\ pendingEffects = {"save"}
    /\ Len(appBookings) = 2
    /\ Len(Partition(localStorage, selectedDate)) = 2
    /\ appBookings[1] = Partition(localStorage, selectedDate)[2]
    /\ SameSlot(appBookings[2], Partition(localStorage, selectedDate)[1])
    /\ Partition(localStorage, selectedDate)[1].players = << <<"A">>, <<" ", "A">> >>
    /\ appBookings[2].players = << <<" ", "A">> >>

====
